---- MODULE Spec2Model ----
(***************************************************************************)
(* lunix-monitor.c: the polling monitor of the Lunix:TNG sensor devices.   *)
(* The state is the global array `sensors`, the curses window, the         *)
(* position of main() and the environment main() talks to: the device      *)
(* nodes that exist, what a read() of a device returns and the keys the    *)
(* user has typed.  Bytes are integers 0..255; a C string is the bytes of  *)
(* a buffer before its first NUL.                                          *)
(***************************************************************************)
EXTENDS Integers, Sequences, FiniteSets, TLC

MAX_SENSORS == 16
BUF_SIZE == 32

NUL == 0
NL == 10
SP == 32
ERR == -1
FieldWidth == 12
FirstRow == 5

\* Bounds of the model (not program constants).
MaxKeys == 2
MaxDevs == 2
MaxShort == 2

Ids == 0 .. (MAX_SENSORS - 1)
Chans == 1 .. 3

\* The three channels of a sensor, in the order the code handles them:
\* 1 batt, 2 temp, 3 light.
----------------------------------------------------------------------------
(* Bytes and text *)

Min(a, b) == IF a < b THEN a ELSE b
Max(a, b) == IF a > b THEN a ELSE b

Rep(b, n) == [k \in 1 .. n |-> b]

\* 'q', 'Q' and some other key, as getch() returns them.
KeyQ == 113
KeyCapQ == 81
KeyOther == 120

\* The characters of the literal "OFFLINE".
OFFLINE == <<79, 70, 70, 76, 73, 78, 69>>

\* A buffer of static storage: all zero.
ZeroBuf == Rep(NUL, BUF_SIZE)

\* A byte of an automatic array that nothing has written yet.
Uninit == 256

\* strlen: the number of bytes before the first NUL.  A buffer holding no NUL
\* is an unterminated string; the scan then runs to the end of the array.
StrLen(s) ==
    IF \E k \in 1 .. Len(s) : s[k] = NUL
    THEN (CHOOSE k \in 1 .. Len(s) : s[k] = NUL /\ \A j \in 1 .. (k - 1) : s[j] # NUL) - 1
    ELSE Len(s)

\* The C string a buffer holds.
CStr(s) == SubSeq(s, 1, StrLen(s))

\* strchr(s, c) for c # NUL: the (1-based) place of the first c in the string
\* s, 0 for the null pointer.
StrChr(s, c) ==
    LET n == StrLen(s)
    IN IF \E k \in 1 .. n : s[k] = c
       THEN CHOOSE k \in 1 .. n : s[k] = c /\ \A j \in 1 .. (k - 1) : s[j] # c
       ELSE 0

\* strncpy(dst, src, n): the string src, NUL-padded to n bytes; no terminator
\* when src holds n or more characters.
StrNCpy(dst, src, n) ==
    LET m == StrLen(src)
    IN [k \in 1 .. Len(dst) |->
           IF k > n THEN dst[k] ELSE IF k <= m THEN src[k] ELSE NUL]

\* printf's "%-12s": the string, left-justified in a field of 12, never cut.
PadField(s) == s \o Rep(SP, Max(0, FieldWidth - Len(s)))

\* "%-12s  %-12s  %-12s"
Fmt3(a, b, c) ==
    PadField(a) \o <<SP, SP>> \o PadField(b) \o <<SP, SP>> \o PadField(c)

\* "Sensor %02d"
FmtLabel(i) ==
    <<83, 101, 110, 115, 111, 114, SP, 48 + (i \div 10), 48 + (i % 10)>>

----------------------------------------------------------------------------
(* try_read *)

\* What a device has for one read(): a failure (EAGAIN: nothing ready), or the
\* bytes it would give.
Fail == [fail |-> TRUE, bytes |-> <<>>]
Give(b) == [fail |-> FALSE, bytes |-> b]

\* read(fd, buf, count): the count returned, ERR on failure, at most `count`.
ReadBytes(data, count) ==
    IF data.fail THEN ERR ELSE Min(Len(data.bytes), count)

\* A plausible slip: the read asks for the whole buffer.
ReadCountWholeBuffer == BUF_SIZE

\* The number of bytes try_read asks for.
ReadCount == BUF_SIZE - 1

\* temp_buf after the read: the bytes read, the rest not written.
TempAfterRead(data, bytes) ==
    [k \in 1 .. BUF_SIZE |-> IF k <= bytes THEN data.bytes[k] ELSE Uninit]

\* A plausible slip: the write is left out.
PokeLost(s, at, b) == s

\* Writing s[at] (1-based); a write past the array leaves the array alone.
Poke(s, at, b) == [k \in 1 .. Len(s) |-> IF k = at THEN b ELSE s[k]]

\* A plausible slip: a read of no byte counts as data.
GotDataOrNone(bytes) == bytes >= 0

\* The test that decides whether the read has produced data.
GotData(bytes) == bytes > 0

\* A plausible slip: the newline is left in place.
CutNewlineMissing(t) == t

\* A plausible slip: strrchr for strchr, the last newline is removed.
CutNewlineLast(t) ==
    LET n == StrLen(t)
        nls == {k \in 1 .. n : t[k] = NL}
    IN IF nls # {}
       THEN Poke(t, CHOOSE k \in nls : \A j \in nls : j <= k, NUL)
       ELSE t

\* The removal of the newline: *newline = '\0' when strchr finds one.
CutNewline(t) ==
    LET newline == StrChr(t, NL)
    IN IF newline # 0 THEN Poke(t, newline, NUL) ELSE t

\* A plausible slip: the test of the descriptor is missing, read() is called
\* on -1 and fails.
TryReadUnguarded(fd, buffer, data) ==
    LET bytes == ReadBytes(data, ReadCount)
    IN IF GotData(bytes)
       THEN LET t1 == Poke(TempAfterRead(data, bytes), bytes + 1, NUL)
                t2 == CutNewline(t1)
            IN [ret |-> 1, buffer |-> StrNCpy(buffer, t2, BUF_SIZE),
                read |-> TRUE, bytes |-> bytes]
       ELSE [ret |-> 0, buffer |-> buffer, read |-> TRUE, bytes |-> bytes]

\* try_read(fd, buffer) with `data` what the device gives: the value returned,
\* the buffer afterwards and whether read() was called.
TryRead(fd, buffer, data) ==
    IF fd < 0
    THEN [ret |-> 0, buffer |-> buffer, read |-> FALSE, bytes |-> 0]
    ELSE LET bytes == ReadBytes(data, ReadCount)
         IN IF GotData(bytes)
            THEN LET t1 == Poke(TempAfterRead(data, bytes), bytes + 1, NUL)
                     t2 == CutNewline(t1)
                 IN [ret |-> 1, buffer |-> StrNCpy(buffer, t2, BUF_SIZE),
                     read |-> TRUE, bytes |-> bytes]
            ELSE [ret |-> 0, buffer |-> buffer, read |-> TRUE, bytes |-> bytes]

----------------------------------------------------------------------------
(* The environment *)

\* The sensors whose device nodes may exist: the first and the last one.
FirstId == 0
LastId == MAX_SENSORS - 1

\* The sets of device nodes /dev/lunix<i>-<metric> that may exist: up to
\* MaxDevs nodes of the last sensor, or one node of the first.
DevSets ==
    {D \in SUBSET ({LastId} \X Chans) : Cardinality(D) <= MaxDevs}
        \cup {{<<FirstId, k>>} : k \in Chans}

\* The bytes "3.7\nstray".
Example == <<51, 46, 55, NL, 115, 116, 114, 97, 121>>

\* Every string of 1 .. MaxShort bytes among a digit, a newline and a NUL.
ShortData ==
    UNION {[1 .. n -> {55, NL, NUL}] : n \in 1 .. MaxShort}

\* Lengths around the width of a field and the size of a buffer.
LongLens ==
    {FieldWidth, FieldWidth + 1, BUF_SIZE - 2, BUF_SIZE - 1, BUF_SIZE,
     BUF_SIZE + 8}

\* What a device may give, in the specification of try_read alone.
RichData ==
    {Fail, Give(<<>>), Give(Example)}
        \cup {Give(b) : b \in ShortData}
        \cup {Give(Rep(56, n)) : n \in LongLens}
        \cup {Give(Append(Rep(56, n), NL)) : n \in LongLens}

\* What a device may have to give when the monitor reads it: an error, no
\* byte, a value with its newline, a bare newline, more than the read takes.
DevData ==
    {Fail, Give(<<>>), Give(<<55, NL>>), Give(<<NL>>), Give(Rep(56, BUF_SIZE + 8))}

\* Keys the user may type.
Keys == {KeyQ, KeyCapQ, KeyOther}

----------------------------------------------------------------------------
(* The state *)

VARIABLES
    pc,        \* where main() is
    i,         \* main's loop variable i
    c,         \* which try_read call of the poll loop's body comes next (1..3)
    ch,        \* main's variable ch: what getch() last returned
    sensors,   \* the global array sensors[MAX_SENSORS]
    frame,     \* the mvprintw calls on the window since the last erase()
    shown,     \* whether refresh() has put the window on the terminal
    openFds,   \* the file descriptors open in the process
    devs,      \* environment: the device nodes that exist
    keys,      \* environment: keys typed and not yet read
    ev,        \* history: the last operation main() performed
    polled,    \* history: try_read calls made in the current cycle
    lastPoll,  \* history: the last try_read call of the current poll pass
    hist,      \* history: per channel, the string its last successful read stored
    snap,      \* history: the values at the end of the current cycle's poll pass
    closes,    \* history: close() calls made per channel
    sinceQuit  \* history: poll passes ended and frames shown while a quit key waited

vars == <<pc, i, c, ch, sensors, frame, shown, openFds, devs, keys, ev, polled,
          lastPoll, hist, snap, closes, sinceQuit>>

\* struct sensor_data, field by channel.
Fd(s, k) == <<s.fd_batt, s.fd_temp, s.fd_light>>[k]
Val(s, k) == <<s.val_batt, s.val_temp, s.val_light>>[k]

\* A plausible slip: every try_read call is handed the battery buffer.
SetValBatt(s, k, v) == [s EXCEPT !.val_batt = v]

SetVal(s, k, v) ==
    CASE k = 1 -> [s EXCEPT !.val_batt = v]
      [] k = 2 -> [s EXCEPT !.val_temp = v]
      [] k = 3 -> [s EXCEPT !.val_light = v]

NoPoll == [i |-> -1, c |-> 0, data |-> Fail, ret |-> 0, read |-> FALSE,
           bytes |-> 0, before |-> <<>>]

\* An element of the array in static storage before main() runs: all zero.
ZeroSensor ==
    [fd_batt |-> 0, fd_temp |-> 0, fd_light |-> 0,
     val_batt |-> ZeroBuf, val_temp |-> ZeroBuf, val_light |-> ZeroBuf]

\* The state when main() is entered.
Init ==
    /\ pc = "start"
    /\ i = 0
    /\ c = 1
    /\ ch = ERR
    /\ sensors = [n \in Ids |-> ZeroSensor]
    /\ frame = <<>>
    /\ shown = FALSE
    /\ openFds = {0, 1, 2}
    /\ devs \in DevSets
    /\ keys = <<>>
    /\ ev = "none"
    /\ polled = 0
    /\ lastPoll = NoPoll
    /\ hist = [n \in Ids |-> [k \in Chans |-> <<>>]]
    /\ snap = <<>>
    /\ closes = [n \in Ids |-> [k \in Chans |-> 0]]
    /\ sinceQuit = [polls |-> 0, frames |-> 0]

----------------------------------------------------------------------------
(* main: start-up *)

\* initscr() ... init_colors(): the window is set up, input is non-blocking.
Start ==
    /\ pc = "start"
    /\ pc' = "open"
    /\ i' = 0
    /\ ev' = "initscr"
    /\ UNCHANGED <<c, ch, sensors, frame, shown, openFds, devs, keys, polled,
                   lastPoll, hist, snap, closes, sinceQuit>>

\* open(): the lowest descriptor not in use.
LowestFree(fds) == CHOOSE n \in 0 .. (Cardinality(fds)) :
                       n \notin fds /\ \A m \in 0 .. (n - 1) : m \in fds

\* open_sensor_dev(sensor_id, type): the descriptor, -1 when the node is absent.
open_sensor_dev(id, k, fds) ==
    IF <<id, k>> \in devs THEN LowestFree(fds) ELSE -1

\* The descriptors in use after an open that returned fd.
AfterOpen(fds, fd) == IF fd < 0 THEN fds ELSE fds \cup {fd}

\* A plausible slip: the loops stop one sensor early.
MoreSensorsButLast(n) == n < MAX_SENSORS - 1

\* The loop test of the three for loops over the sensors.
MoreSensors(n) == n < MAX_SENSORS

\* The body of the open loop for sensor id, s its element of the array: the
\* three values are made empty strings and the three devices are opened, in
\* the order batt, temp, light.
OpenSensor(id, s, fds) ==
    LET b == open_sensor_dev(id, 1, fds)
        f1 == AfterOpen(fds, b)
        t == open_sensor_dev(id, 2, f1)
        f2 == AfterOpen(f1, t)
        l == open_sensor_dev(id, 3, f2)
    IN [s |-> [fd_batt |-> b, fd_temp |-> t, fd_light |-> l,
               val_batt |-> Poke(s.val_batt, 1, NUL),
               val_temp |-> Poke(s.val_temp, 1, NUL),
               val_light |-> Poke(s.val_light, 1, NUL)],
        fds |-> AfterOpen(f2, l)]

\* One pass of the body of the open loop.
Open ==
    /\ pc = "open"
    /\ MoreSensors(i)
    /\ LET r == OpenSensor(i, sensors[i], openFds)
       IN /\ sensors' = [sensors EXCEPT ![i] = r.s]
          /\ openFds' = r.fds
    /\ i' = i + 1
    /\ pc' = IF MoreSensors(i + 1) THEN "open" ELSE "getch"
    /\ ev' = "open"
    /\ UNCHANGED <<c, ch, frame, shown, devs, keys, polled, lastPoll, hist,
                   snap, closes, sinceQuit>>

----------------------------------------------------------------------------
(* main: the loop *)

\* A plausible slip: only the lower-case key is tested.
IsQuitLowerOnly(k) == k = KeyQ

\* A plausible slip: any key typed ends the loop.
IsQuitAnyKey(k) == k # ERR

\* The test of the key: ch == 'q' || ch == 'Q'.
IsQuit(k) == k = KeyQ \/ k = KeyCapQ

\* A quit key is typed and not yet read.
QuitWaiting(q) == \E n \in 1 .. Len(q) : q[n] = KeyQ \/ q[n] = KeyCapQ

\* A plausible slip: without nodelay() getch() waits until a key is typed.
KeyCheckWaits(q) == q # <<>>

\* Whether getch() returns: with nodelay(stdscr, TRUE) it always does.
KeyCheckReturns(q) == TRUE

\* getch() with nodelay: the oldest key typed, ERR when there is none.
getch(q) == IF q = <<>> THEN ERR ELSE Head(q)

\* ch = getch(); if (ch == 'q' || ch == 'Q') break;
GetKey ==
    /\ pc = "getch"
    /\ KeyCheckReturns(keys)
    /\ ch' = getch(keys)
    /\ keys' = IF keys = <<>> THEN keys ELSE Tail(keys)
    /\ pc' = IF IsQuit(ch') THEN "cleanup" ELSE "poll"
    /\ i' = 0
    /\ c' = 1
    /\ polled' = 0
    /\ lastPoll' = NoPoll
    /\ snap' = <<>>
    /\ ev' = "getch"
    /\ UNCHANGED <<sensors, frame, shown, openFds, devs, hist, closes, sinceQuit>>

\* The strings the three buffers of every sensor hold.
Values(ss) == [n \in Ids |-> [k \in Chans |-> CStr(Val(ss[n], k))]]

SetFd(s, k, fd) ==
    CASE k = 1 -> [s EXCEPT !.fd_batt = fd]
      [] k = 2 -> [s EXCEPT !.fd_temp = fd]
      [] k = 3 -> [s EXCEPT !.fd_light = fd]

\* A plausible slip: a poll of a channel that is not open tries the open
\* again.
AfterPollReopen(id, s, k, buffer) ==
    IF Fd(s, k) < 0
    THEN SetFd(SetVal(s, k, buffer), k, open_sensor_dev(id, k, openFds))
    ELSE SetVal(s, k, buffer)

\* The element of sensor id after try_read on its channel k: the call is
\* handed the descriptor by value and the buffer, so the buffer alone may
\* have changed.
AfterPoll(id, s, k, buffer) == SetVal(s, k, buffer)

\* One try_read call of the poll loop: channel c of sensor i.  A device that
\* is read gives any of DataSet.
PollChannel(id, k, DataSet) ==
    LET s == sensors[id]
    IN \E data \in (IF Fd(s, k) < 0 THEN {Fail} ELSE DataSet) :
        LET r == TryRead(Fd(s, k), Val(s, k), data)
        IN /\ sensors' = [sensors EXCEPT ![id] = AfterPoll(id, @, k, r.buffer)]
           /\ lastPoll' = [i |-> id, c |-> k, data |-> data, ret |-> r.ret,
                           read |-> r.read, bytes |-> r.bytes,
                           before |-> Val(s, k)]
           /\ hist' = IF r.bytes > 0
                      THEN [hist EXCEPT ![id][k] = <<CStr(r.buffer)>>]
                      ELSE hist

Poll ==
    /\ pc = "poll"
    /\ MoreSensors(i)
    /\ PollChannel(i, c, DevData)
    /\ polled' = polled + 1
    /\ ev' = "poll"
    /\ IF c < 3
       THEN /\ c' = c + 1
            /\ UNCHANGED <<i, pc, snap, sinceQuit>>
       ELSE /\ c' = 1
            /\ i' = i + 1
            /\ IF MoreSensors(i + 1)
               THEN UNCHANGED <<pc, snap, sinceQuit>>
               ELSE /\ pc' = "erase"
                    /\ snap' = Values(sensors')
                    /\ sinceQuit' = IF QuitWaiting(keys)
                                    THEN [sinceQuit EXCEPT !.polls = @ + 1]
                                    ELSE sinceQuit
    /\ UNCHANGED <<ch, frame, shown, openFds, devs, keys, closes>>

\* erase()
Erase ==
    /\ pc = "erase"
    /\ frame' = <<>>
    /\ shown' = FALSE
    /\ pc' = "header"
    /\ lastPoll' = NoPoll
    /\ ev' = "erase"
    /\ UNCHANGED <<i, c, ch, sensors, openFds, devs, keys, polled, hist, snap,
                   closes, sinceQuit>>

\* One mvprintw call: where, what and with which attribute.
Draw(kind, row, col, text, attr) ==
    [kind |-> kind, row |-> row, col |-> col, text |-> text, attr |-> attr]

\* The title, the disclaimer and the table header.
Header ==
    /\ pc = "header"
    /\ frame' = frame \o
         << Draw("title", 0, 2, "Lunix:TNG Sensor Monitor (Press 'q' to quit)",
                 "pair1-bold"),
            Draw("disclaimer", 1, 2,
                 "[This version uses Polling - It does not support Wait-Wake]",
                 "dim"),
            Draw("header", 3, 2, "%-8s  %-12s  %-12s  %-12s", "underline") >>
    /\ pc' = "row"
    /\ i' = 0
    /\ ev' = "draw"
    /\ UNCHANGED <<c, ch, sensors, shown, openFds, devs, keys, polled, lastPoll,
                   hist, snap, closes, sinceQuit>>

\* A plausible slip: the test looks at the temperature channel.
IsOfflineByTemp(s) == s.fd_temp < 0 \/ s.val_temp[1] = NUL

\* A plausible slip: a sensor is off line unless all three channels hold a
\* value.
IsOfflineByAny(s) ==
    \/ s.fd_batt < 0 \/ s.val_batt[1] = NUL
    \/ s.fd_temp < 0 \/ s.val_temp[1] = NUL
    \/ s.fd_light < 0 \/ s.val_light[1] = NUL

\* The test of a row: the sensor is shown as off line.
IsOffline(s) == s.fd_batt < 0 \/ s.val_batt[1] = NUL

\* A plausible slip: the rows start where they did before the disclaimer
\* line moved them down.
RowOfOneUp(n) == FirstRow - 1 + n

\* The screen row of sensor n.
RowOf(n) == FirstRow + n

\* A plausible slip: the temperature and the light arguments are swapped.
RowTextSwapped(s) ==
    IF IsOffline(s)
    THEN Fmt3(OFFLINE, OFFLINE, OFFLINE)
    ELSE Fmt3(CStr(s.val_batt), CStr(s.val_light), CStr(s.val_temp))

\* The text of the three value columns of a row.
RowText(s) ==
    IF IsOffline(s)
    THEN Fmt3(OFFLINE, OFFLINE, OFFLINE)
    ELSE Fmt3(CStr(s.val_batt), CStr(s.val_temp), CStr(s.val_light))

\* One pass of the body of the row loop: the label and the values of sensor i.
Row ==
    /\ pc = "row"
    /\ MoreSensors(i)
    /\ frame' = frame \o
         << Draw("label", RowOf(i), 2, FmtLabel(i), "pair3"),
            Draw("values", RowOf(i), 12, RowText(sensors[i]),
                 IF IsOffline(sensors[i]) THEN "pair4" ELSE "pair2") >>
    /\ i' = i + 1
    /\ pc' = IF MoreSensors(i + 1) THEN "row" ELSE "footer"
    /\ ev' = "draw"
    /\ UNCHANGED <<c, ch, sensors, shown, openFds, devs, keys, polled, lastPoll,
                   hist, snap, closes, sinceQuit>>

\* The footer line.
Footer ==
    /\ pc = "footer"
    /\ frame' = Append(frame,
         Draw("footer", FirstRow + MAX_SENSORS + 1, 2,
              "Status: Active Polling (O_NONBLOCK)...", "normal"))
    /\ pc' = "refresh"
    /\ ev' = "draw"
    /\ UNCHANGED <<i, c, ch, sensors, shown, openFds, devs, keys, polled,
                   lastPoll, hist, snap, closes, sinceQuit>>

\* refresh()
Refresh ==
    /\ pc = "refresh"
    /\ shown' = TRUE
    /\ pc' = "sleep"
    /\ ev' = "refresh"
    /\ sinceQuit' = IF QuitWaiting(keys)
                    THEN [sinceQuit EXCEPT !.frames = @ + 1]
                    ELSE sinceQuit
    /\ UNCHANGED <<i, c, ch, sensors, frame, openFds, devs, keys, polled,
                   lastPoll, hist, snap, closes>>

\* usleep(100000)
Sleep ==
    /\ pc = "sleep"
    /\ pc' = "getch"
    /\ ev' = "sleep"
    /\ UNCHANGED <<i, c, ch, sensors, frame, shown, openFds, devs, keys, polled,
                   lastPoll, hist, snap, closes, sinceQuit>>

----------------------------------------------------------------------------
(* main: cleanup *)

\* A plausible slip: close() is called without the test.
ShouldCloseAlways(fd) == TRUE

\* The test before each close(): the descriptor is one that was opened.
ShouldClose(fd) == fd >= 0

\* The channels of a sensor that the cleanup loop closes.
Closed(s) == {k \in Chans : ShouldClose(Fd(s, k))}

\* One pass of the body of the cleanup loop: the descriptors of sensor i.
Cleanup ==
    /\ pc = "cleanup"
    /\ MoreSensors(i)
    /\ closes' = [closes EXCEPT ![i] =
                     [k \in Chans |-> IF k \in Closed(sensors[i])
                                      THEN @[k] + 1 ELSE @[k]]]
    /\ openFds' = openFds \ {Fd(sensors[i], k) : k \in Closed(sensors[i])}
    /\ i' = i + 1
    /\ pc' = IF MoreSensors(i + 1) THEN "cleanup" ELSE "endwin"
    /\ ev' = "close"
    /\ UNCHANGED <<c, ch, sensors, frame, shown, devs, keys, polled, lastPoll,
                   hist, snap, sinceQuit>>

\* endwin(); return 0;
EndWin ==
    /\ pc = "endwin"
    /\ pc' = "done"
    /\ ev' = "endwin"
    /\ UNCHANGED <<i, c, ch, sensors, frame, shown, openFds, devs, keys, polled,
                   lastPoll, hist, snap, closes, sinceQuit>>

\* The user types a key while the loop runs.  Keys typed after a quit key are
\* never read, so the user is taken to stop typing there.
Type ==
    /\ pc \notin {"cleanup", "endwin", "done"}
    /\ Len(keys) < MaxKeys
    /\ ~QuitWaiting(keys)
    /\ \E k \in Keys : keys' = Append(keys, k)
    /\ UNCHANGED <<pc, i, c, ch, sensors, frame, shown, openFds, devs, ev,
                   polled, lastPoll, hist, snap, closes, sinceQuit>>

Next ==
    \/ Start
    \/ Open
    \/ GetKey
    \/ Poll
    \/ Erase
    \/ Header
    \/ Row
    \/ Footer
    \/ Refresh
    \/ Sleep
    \/ Cleanup
    \/ EndWin
    \/ Type

Spec == Init /\ [][Next]_vars

----------------------------------------------------------------------------
(* try_read on its own: the calls of the poll loop on the channels of the   *)
(* last sensor, of which at most one has a device, with every kind of data  *)
(* a device may give.                                                       *)

\* The state in the poll loop at the last sensor, before its first read.
InitRead ==
    /\ pc = "poll"
    /\ i = LastId
    /\ c = 1
    /\ ch = ERR
    /\ devs \in {D \in DevSets : Cardinality(D) <= 1 /\ \A x \in D : x[1] = LastId}
    /\ sensors = [n \in Ids |-> OpenSensor(n, ZeroSensor, {0, 1, 2}).s]
    /\ frame = <<>>
    /\ shown = FALSE
    /\ openFds = OpenSensor(LastId, ZeroSensor, {0, 1, 2}).fds
    /\ keys = <<>>
    /\ ev = "poll"
    /\ polled = 3 * LastId
    /\ lastPoll = NoPoll
    /\ hist = [n \in Ids |-> [k \in Chans |-> <<>>]]
    /\ snap = <<>>
    /\ closes = [n \in Ids |-> [k \in Chans |-> 0]]
    /\ sinceQuit = [polls |-> 0, frames |-> 0]

\* One try_read call on a channel of the last sensor.
ReadStep ==
    /\ \E k \in Chans : PollChannel(LastId, k, RichData)
    /\ UNCHANGED <<pc, i, c, ch, frame, shown, openFds, devs, keys, ev, polled,
                   snap, closes, sinceQuit>>

SpecRead == InitRead /\ [][ReadStep]_vars

----------------------------------------------------------------------------
(* Properties *)

\* The draws of one kind in the frame.
DrawsOf(kind) == {n \in 1 .. Len(frame) : frame[n].kind = kind}

\* The frame in hand was drawn after the last poll pass: main() is past the
\* rows, or back at the key check.
FrameFresh == pc \in {"footer", "refresh", "sleep", "getch"} /\ frame # <<>>

\* The values row of sensor id, as drawn for a sensor that is off line.
ShowsOffline(d) ==
    d.attr = "pair4" /\ d.text = Fmt3(OFFLINE, OFFLINE, OFFLINE)

\* The values draws of the row of sensor id.
RowsOf(id) == {n \in DrawsOf("values") : frame[n].row = FirstRow + id}

\* C1: once the battery channel of a sensor has had a poll that read a
\* positive number of bytes, every frame drawn afterwards shows the sensor
\* on line (its row is not the OFFLINE row), whatever was read later and
\* whatever the temperature and light channels are.
C1_OnlineAfterFirstReading ==
    FrameFresh =>
        \A id \in Ids :
            hist[id][1] # <<>> => \A n \in RowsOf(id) : ~ShowsOffline(frame[n])

\* C2: a sensor whose battery device failed to open (fd_batt < 0) is shown
\* off line in every frame of the run, whatever its temperature and light
\* channels are and hold.
C2_UnopenedBatteryAlwaysOffline ==
    pc \notin {"start", "open"} =>
        \A id \in Ids :
            sensors[id].fd_batt < 0 =>
                \A n \in RowsOf(id) : ShowsOffline(frame[n])

\* C2 witness: a frame is complete, and it has the row of a sensor whose
\* battery device is absent while its temperature channel holds a value.
C2_Witness ==
    /\ pc = "refresh"
    /\ \E id \in Ids :
          /\ sensors[id].fd_batt < 0
          /\ sensors[id].fd_temp >= 0
          /\ CStr(sensors[id].val_temp) # <<>>
          /\ RowsOf(id) # {}

\* The bytes before the first byte b of a byte string, all of it when it
\* holds no b.
Before(bs, b) ==
    IF \E n \in 1 .. Len(bs) : bs[n] = b
    THEN SubSeq(bs, 1, (CHOOSE n \in 1 .. Len(bs) :
                           bs[n] = b /\ \A m \in 1 .. (n - 1) : bs[m] # b) - 1)
    ELSE bs

\* The bytes the last try_read call read, and the string its channel holds.
BytesRead == SubSeq(lastPoll.data.bytes, 1, lastPoll.bytes)
PolledValue == CStr(Val(sensors[lastPoll.i], lastPoll.c))

\* C3 as stated: a poll that reads a positive number of bytes returns true
\* and leaves as the value the bytes read, cut before the first line-break.
C3_ValueIsBytesBeforeLineBreak ==
    (lastPoll.read /\ lastPoll.bytes > 0) =>
        /\ lastPoll.ret = 1
        /\ PolledValue = Before(BytesRead, NL)

\* C3 amended: a poll that reads a positive number of bytes returns true and
\* leaves as the value the bytes read, cut before the first line-break or
\* NUL byte, whichever comes first.
C3_ValueIsBytesBeforeLineBreakOrNul ==
    (lastPoll.read /\ lastPoll.bytes > 0) =>
        /\ lastPoll.bytes <= BUF_SIZE - 1
        /\ lastPoll.ret = 1
        /\ PolledValue = Before(Before(BytesRead, NUL), NL)

\* C3 witness: the read of "3.7\nstray" has left "3.7".
C3_Witness ==
    /\ lastPoll.read
    /\ lastPoll.data = Give(Example)
    /\ PolledValue = <<51, 46, 55>>

\* C4: a poll whose read returns zero or a negative count returns false and
\* leaves the value of the channel as it was; so every channel that has read
\* data holds what its last read of data stored, however many empty polls
\* have followed.
C4_EmptyPollKeepsValue ==
    /\ (lastPoll.read /\ lastPoll.bytes <= 0) =>
          /\ lastPoll.ret = 0
          /\ Val(sensors[lastPoll.i], lastPoll.c) = lastPoll.before
    /\ \A id \in Ids, k \in Chans :
          hist[id][k] # <<>> => CStr(Val(sensors[id], k)) = hist[id][k][1]

\* C4 witness: a channel holding a value has just been polled and the read
\* gave no byte.
C4_Witness ==
    /\ lastPoll.read
    /\ lastPoll.bytes = 0
    /\ CStr(lastPoll.before) # <<>>
    /\ hist[lastPoll.i][lastPoll.c] # <<>>

\* The length of the longest value held.
MaxValueLen(n) ==
    \A id \in Ids, k \in Chans : Len(CStr(Val(sensors[id], k))) <= n

\* C5 as stated: no value is longer than the width of a value field (12).
C5_ValueFitsField == MaxValueLen(FieldWidth)

\* C5 amended: no value is longer than BUF_SIZE - 1 = 31 characters, the
\* number of bytes a read asks for; a value is not cut to the 12 characters
\* of a field.
C5_ValueFitsReadCount == MaxValueLen(BUF_SIZE - 1)

\* C5 witness: a read of more than 31 bytes has left a value of 31
\* characters.
C5_Witness ==
    /\ lastPoll.read
    /\ Len(lastPoll.data.bytes) > BUF_SIZE - 1
    /\ Len(PolledValue) = BUF_SIZE - 1

\* The loop has read a quit key: the main loop is Stopped.
Stopped == ch = KeyQ \/ ch = KeyCapQ

\* C6: once the loop has read 'q' or 'Q', no step polls a channel, erases,
\* draws or refreshes: the values, the frame and the terminal stay as they
\* are.
C6_NoWorkAfterStop ==
    [][Stopped =>
          /\ ev' \notin {"poll", "erase", "draw", "refresh"}
          /\ polled' = polled
          /\ sensors' = sensors
          /\ frame' = frame
          /\ shown' = shown]_vars

\* C6 witness: the run has ended on a 'Q' read after a frame was shown.
C6_Witness ==
    /\ pc = "done"
    /\ ch = KeyCapQ
    /\ shown
    /\ frame # <<>>

\* C7: at shutdown every channel that was opened is closed exactly once and
\* its descriptor released, no unavailable channel is ever closed, nothing is
\* closed while the loop runs, and no channel is read once it is closed.
C7_ReleasedExactlyOnce ==
    /\ \A id \in Ids, k \in Chans :
          /\ closes[id][k] <= 1
          /\ Fd(sensors[id], k) < 0 => closes[id][k] = 0
          /\ ~Stopped => closes[id][k] = 0
          /\ pc = "done" =>
                closes[id][k] = (IF Fd(sensors[id], k) >= 0 THEN 1 ELSE 0)
    /\ pc = "done" => openFds = {0, 1, 2}
    /\ lastPoll.read => closes[lastPoll.i][lastPoll.c] = 0

\* C7 witness: the run has ended with a channel that was opened, read and
\* closed, and one that was never available.
C7_Witness ==
    /\ pc = "done"
    /\ \E id \in Ids, k \in Chans :
          /\ Fd(sensors[id], k) >= 0
          /\ closes[id][k] = 1
          /\ hist[id][k] # <<>>
    /\ \E id \in Ids, k \in Chans :
          Fd(sensors[id], k) < 0 /\ closes[id][k] = 0

\* C8: while a quit key waits unread, at most one poll pass ends and at most
\* one frame is shown before the loop stops, whatever the user has typed.
C8_QuitWithinOneCycle ==
    sinceQuit.polls <= 1 /\ sinceQuit.frames <= 1

\* C9: in every cycle all 3 x 16 channels are polled before the frame is
\* erased and drawn, no value changes while it is drawn, and every row of an
\* on-line sensor shows the three values its channels held at the end of the
\* cycle's poll pass.
C9_FrameShowsPollSnapshot ==
    /\ pc \in {"erase", "header", "row", "footer", "refresh", "sleep"} =>
          /\ polled = 3 * MAX_SENSORS
          /\ snap = Values(sensors)
    /\ pc \in {"row", "footer", "refresh", "sleep"} =>
          \A n \in DrawsOf("values") :
              frame[n].attr = "pair2" =>
                  \E id \in Ids :
                      /\ frame[n].row = FirstRow + id
                      /\ frame[n].text =
                            Fmt3(snap[id][1], snap[id][2], snap[id][3])

\* C9 witness: a complete frame shows an on-line sensor with two channels
\* that hold different values read from their devices.
C9_Witness ==
    /\ pc = "refresh"
    /\ \E id \in Ids :
          /\ hist[id][1] # <<>>
          /\ hist[id][2] # <<>>
          /\ snap[id][1] # <<>>
          /\ snap[id][2] # <<>>
          /\ snap[id][1] # snap[id][2]
          /\ \E n \in RowsOf(id) : frame[n].attr = "pair2"

IsValues(d) == d.kind = "values"
IsLabel(d) == d.kind = "label"

\* C10: every frame has exactly 16 sensor rows, sensor i on row 5 + i, in
\* ascending order, whatever opened; when no channel opened every row shows
\* OFFLINE in its three value columns.
C10_SixteenRowsInOrder ==
    FrameFresh =>
        LET vs == SelectSeq(frame, IsValues)
            ls == SelectSeq(frame, IsLabel)
        IN /\ Len(vs) = MAX_SENSORS
           /\ Len(ls) = MAX_SENSORS
           /\ \A id \in Ids :
                 /\ ls[id + 1].row = FirstRow + id
                 /\ ls[id + 1].text = FmtLabel(id)
                 /\ vs[id + 1].row = FirstRow + id
           /\ (\A id \in Ids, k \in Chans : Fd(sensors[id], k) < 0) =>
                 \A id \in Ids : ShowsOffline(vs[id + 1])

\* C10 witness: no device exists and a complete frame shows 16 OFFLINE rows.
C10_Witness ==
    /\ pc = "refresh"
    /\ devs = {}
    /\ \A id \in Ids, k \in Chans : Fd(sensors[id], k) < 0
    /\ Cardinality(DrawsOf("values")) = MAX_SENSORS
    /\ \A n \in DrawsOf("values") : ShowsOffline(frame[n])

\* The rows of the frame in hand were drawn from the values the channels
\* hold now: main() is neither polling nor about to erase.
RowsCurrent == pc \notin {"poll", "erase"}

\* The status of a sensor, from the present state of its battery channel: off
\* line when the channel is unavailable or holds the empty string.
BatteryDead(id) ==
    sensors[id].fd_batt < 0 \/ CStr(sensors[id].val_batt) = <<>>

\* The string a value column shows for a channel of an on-line sensor.
Shown(id, k) ==
    IF Fd(sensors[id], k) < 0 THEN <<>> ELSE CStr(Val(sensors[id], k))

\* C11: a row is all or nothing and follows the battery channel alone: the
\* row of an off-line sensor shows OFFLINE in its three columns, in the
\* off-line colour, whatever its temperature and light channels hold; the row
\* of an on-line sensor shows in each column the present value of that
\* channel, in the value colour, an empty field for a channel that is
\* unavailable or has no reading.
C11_RowAllOrNothing ==
    RowsCurrent =>
        \A id \in Ids : \A n \in RowsOf(id) :
            IF BatteryDead(id)
            THEN ShowsOffline(frame[n])
            ELSE /\ frame[n].attr = "pair2"
                 /\ frame[n].text = Fmt3(Shown(id, 1), Shown(id, 2), Shown(id, 3))

\* C11 witness: a complete frame shows OFFLINE for a sensor whose battery
\* channel is open and silent while its temperature channel holds a value.
C11_Witness ==
    /\ pc = "refresh"
    /\ \E id \in Ids :
          /\ sensors[id].fd_batt >= 0
          /\ CStr(sensors[id].val_batt) = <<>>
          /\ CStr(sensors[id].val_temp) # <<>>
          /\ \E n \in RowsOf(id) : ShowsOffline(frame[n])

\* main() has left the loop.
LoopLeft == {"cleanup", "endwin", "done"}

\* The draws of a whole frame: title, disclaimer, header, two per sensor and
\* the footer.
FrameLen == 3 + 2 * MAX_SENSORS + 1

\* C12: the loop is left only by the key check reading 'q' or 'Q'.  Whatever
\* devices failed to open and whatever the reads returned, a key check that
\* reads another key or no key goes on to the poll pass, and the cycle comes
\* to its sleep with all 3 x 16 channels polled and a whole frame shown.
C12_LeavesOnlyOnQuitKey ==
    [][/\ (pc \notin LoopLeft /\ pc' \in LoopLeft) =>
              /\ pc = "getch"
              /\ keys # <<>>
              /\ Head(keys) \in {KeyQ, KeyCapQ}
              /\ ch' = Head(keys)
       /\ (pc = "getch" /\ pc' # "getch" /\ ch' \notin {KeyQ, KeyCapQ}) =>
              pc' = "poll"
       /\ pc' = "sleep" =>
              /\ polled' = 3 * MAX_SENSORS
              /\ Len(frame') = FrameLen
              /\ shown']_vars

\* C12 witness: a cycle that read a key other than 'q' and 'Q' has come to its
\* sleep, with a device that failed to open, a channel whose reads gave no
\* data and a read of more bytes than a buffer takes behind it.
C12_Witness ==
    /\ pc = "sleep"
    /\ ch = KeyOther
    /\ shown
    /\ \E id \in Ids :
          /\ sensors[id].fd_light < 0
          /\ sensors[id].fd_batt >= 0
          /\ sensors[id].fd_temp >= 0
          /\ hist[id][1] = <<>>
          /\ Len(CStr(sensors[id].val_temp)) = BUF_SIZE - 1

\* The number of line-breaks in a byte string.
LineBreaks(bs) == Cardinality({n \in 1 .. Len(bs) : bs[n] = NL})

\* C14: no value ever holds a line-break, whatever bytes the reads have
\* returned: neither the string a buffer holds nor any byte of the buffer is
\* a line-break.
C14_NoLineBreakInValue ==
    \A id \in Ids, k \in Chans :
        /\ LineBreaks(CStr(Val(sensors[id], k))) = 0
        /\ LineBreaks(Val(sensors[id], k)) = 0

\* C14 witness: a read has returned bytes that begin and end with a
\* line-break, two of them, and has been stored.
C14_Witness ==
    /\ lastPoll.read
    /\ lastPoll.ret = 1
    /\ LineBreaks(BytesRead) >= 2
    /\ BytesRead[1] = NL
    /\ BytesRead[Len(BytesRead)] = NL

\* C15: the value of a channel is the empty string exactly when no poll of
\* the channel has returned true.
C15_EmptyIffNoData ==
    \A id \in Ids, k \in Chans :
        (CStr(Val(sensors[id], k)) = <<>>) <=> (hist[id][k] = <<>>)

----------------------------------------------------------------------------
(* Devices that appear while the monitor runs *)

\* The device nodes that may appear: those of the last sensor's battery and
\* temperature channels.
PlugNodes == {<<LastId, 1>>, <<LastId, 2>>}

\* A device node appears.
Plug ==
    /\ pc # "done"
    /\ \E x \in PlugNodes \ devs : devs' = devs \cup {x}
    /\ UNCHANGED <<pc, i, c, ch, sensors, frame, shown, openFds, keys, ev,
                   polled, lastPoll, hist, snap, closes, sinceQuit>>

\* The runs that start with no device node, or with the battery node of the
\* last sensor.
InitPlug == Init /\ devs \subseteq {<<LastId, 1>>}

NextPlug == Next \/ Plug

SpecPlug == InitPlug /\ [][NextPlug]_vars

----------------------------------------------------------------------------
(* Progress *)

\* A step of main().  Nothing in main() blocks: getch() is non-blocking
\* (nodelay, line 86), the devices are opened O_NONBLOCK and usleep returns,
\* so a step of main() that can be taken is taken in the end.  The user is
\* under no obligation to type.
MainStep ==
    \/ Start
    \/ Open
    \/ GetKey
    \/ Poll
    \/ Erase
    \/ Header
    \/ Row
    \/ Footer
    \/ Refresh
    \/ Sleep
    \/ Cleanup
    \/ EndWin

\* Progress does not depend on what the devices give: the runs taken are
\* those with no device node, or with the battery node of the last sensor.
InitLive == Init /\ devs \subseteq {<<LastId, 1>>}

SpecLive == InitLive /\ [][Next]_vars /\ WF_vars(MainStep)

\* C13: under weak fairness of the steps of main(), once a 'q' or 'Q' is
\* typed the loop stops and the shutdown completes; and, as neither the key
\* check nor a read blocks, every cycle comes to its render and its sleep
\* unless its key check reads a quit key, with or without input.
C13_QuitEndsRunAndCyclesComplete ==
    /\ QuitWaiting(keys) ~> (pc = "done")
    /\ (pc = "getch") ~> (pc = "poll" \/ pc = "done")
    /\ (pc = "poll") ~> (pc = "refresh")
    /\ (pc = "poll") ~> (pc = "sleep")

\* C13 witness: a quit key was typed while a cycle ran; the cycle showed its
\* frame, the next key check read the key and the shutdown has completed.
C13_Witness ==
    /\ pc = "done"
    /\ Stopped
    /\ sinceQuit.polls = 1
    /\ sinceQuit.frames = 1
    /\ \A id \in Ids, k \in Chans : Fd(sensors[id], k) >= 0 => closes[id][k] = 1

\* The loop of main() is running.
Running == pc \notin {"start", "open"} /\ pc \notin LoopLeft

\* C16: the source of a channel is decided once, by the open at startup: a
\* descriptor field changes only in the pass of the open loop for its sensor
\* and is then the outcome of that open; while the loop runs (and after it)
\* no descriptor is opened and no field changes, also for a device that
\* appears later.
C16_SourceDecidedOnce ==
    [][/\ \A id \in Ids, k \in Chans :
              Fd(sensors'[id], k) # Fd(sensors[id], k) => (pc = "open" /\ i = id)
       /\ (pc = "open" /\ i' = i + 1) =>
              \A k \in Chans : (Fd(sensors'[i], k) >= 0) <=> (<<i, k>> \in devs)
       /\ pc # "open" => openFds' \subseteq openFds]_vars

\* C16 witness: the loop runs and a whole poll pass is over; the node of a
\* device that appeared after its open failed exists and its channel is
\* still unavailable and empty, next to a channel that opened at startup and
\* has been read.
C16_Witness ==
    /\ Running
    /\ polled = 3 * MAX_SENSORS
    /\ \E id \in Ids, k \in Chans :
          /\ <<id, k>> \in devs
          /\ Fd(sensors[id], k) < 0
          /\ CStr(Val(sensors[id], k)) = <<>>
    /\ \E id \in Ids, k \in Chans :
          Fd(sensors[id], k) >= 0 /\ hist[id][k] # <<>>

\* C17: a poll pass calls try_read on the 3 x 16 channels once each, sensors
\* in ascending order and battery, temperature, light within a sensor: the
\* n-th call of a pass is on channel n, and the pass ends with the 48th.  A
\* call changes at most the value of its own channel: the values of all
\* other channels and every descriptor stay, whether the call got data, got
\* none or found the channel unavailable, and the pass goes on.
C17_PollPassInOrderOwnChannelOnly ==
    [][pc = "poll" /\ polled' # polled =>
          /\ polled' = polled + 1
          /\ i = polled \div 3
          /\ c = (polled % 3) + 1
          /\ lastPoll'.i = i
          /\ lastPoll'.c = c
          /\ (pc' = "poll") <=> (polled' < 3 * MAX_SENSORS)
          /\ (pc' = "erase") <=> (polled' = 3 * MAX_SENSORS)
          /\ \A id \in Ids, k \in Chans :
                /\ Fd(sensors'[id], k) = Fd(sensors[id], k)
                /\ <<id, k>> # <<i, c>> =>
                      Val(sensors'[id], k) = Val(sensors[id], k)]_vars

\* C17 witness: in a poll pass the battery channel of the last sensor holds
\* a value, the poll of its temperature channel has just got no data, and
\* the 48th call, on its unavailable light channel, is still to come.
C17_Witness ==
    /\ pc = "poll"
    /\ polled = 3 * MAX_SENSORS - 1
    /\ lastPoll.i = LastId
    /\ lastPoll.c = 2
    /\ lastPoll.read
    /\ lastPoll.ret = 0
    /\ CStr(sensors[LastId].val_batt) # <<>>
    /\ sensors[LastId].fd_light < 0

\* The operations of a cycle, each with the operation that may follow it:
\* key check, polls, erase, draws, refresh, sleep, and the key check again.
\* The first key check follows the last open.
CycleOrder ==
    {<<"open", "getch">>, <<"getch", "poll">>, <<"poll", "poll">>,
     <<"poll", "erase">>, <<"erase", "draw">>, <<"draw", "draw">>,
     <<"draw", "refresh">>, <<"refresh", "sleep">>, <<"sleep", "getch">>}

\* C18: while the loop runs the operations of main() come in the order key
\* check, poll pass, erase, frame, refresh, sleep, each once per cycle: the
\* erase follows the 48th poll, the refresh follows the last draw of a whole
\* frame, the sleep follows the refresh and the key check the sleep; a key
\* check that reads a quit key is followed by the cleanup, with no poll and
\* no draw, and the window is erased only in a cycle that then draws and
\* shows the whole frame.
C18_CycleOrder ==
    [][(Running /\ <<pc, i, c>>' # <<pc, i, c>>) =>
          /\ <<ev, ev'>> \in CycleOrder
          /\ ev' = "poll" => (polled < 3 * MAX_SENSORS /\ frame' = frame)
          /\ ev' = "erase" => (polled = 3 * MAX_SENSORS /\ ev = "poll")
          /\ ev' = "draw" => (Len(frame) < FrameLen /\ sensors' = sensors)
          /\ ev' = "refresh" => (Len(frame) = FrameLen /\ frame' = frame)
          /\ ev' = "sleep" => (shown /\ Len(frame) = FrameLen)
          /\ ev' = "getch" =>
                /\ ev = "sleep" => (shown /\ Len(frame) = FrameLen)
                /\ polled' = 0
                /\ (ch' \in {KeyQ, KeyCapQ}) <=> (pc' = "cleanup")
                /\ (ch' \notin {KeyQ, KeyCapQ}) <=> (pc' = "poll")]_vars

\* C18 witness: a cycle has gone through its 48 polls, its erase, its whole
\* frame, its refresh and its sleep, and the key check that comes next will
\* read a quit key.
C18_Witness ==
    /\ pc = "getch"
    /\ ev = "sleep"
    /\ polled = 3 * MAX_SENSORS
    /\ shown
    /\ Len(frame) = FrameLen
    /\ keys # <<>>
    /\ Head(keys) \in {KeyQ, KeyCapQ}

\* C19: a channel whose open failed is never read: every poll of it returns
\* false at once, without a read(); its value is the empty string in every
\* state and no poll of it has ever stored anything, so a value row shows an
\* empty field in its column.
C19_UnopenedNeverReadAlwaysEmpty ==
    \A id \in Ids, k \in Chans :
        Fd(sensors[id], k) < 0 =>
            /\ CStr(Val(sensors[id], k)) = <<>>
            /\ hist[id][k] = <<>>
            /\ (lastPoll.i = id /\ lastPoll.c = k) =>
                  (~lastPoll.read /\ lastPoll.ret = 0)
            /\ (RowsCurrent /\ k # 1) =>
                  \A n \in RowsOf(id) :
                      frame[n].attr = "pair2" =>
                          frame[n].text =
                              Fmt3(CStr(sensors[id].val_batt),
                                   IF k = 2 THEN <<>> ELSE CStr(sensors[id].val_temp),
                                   IF k = 3 THEN <<>> ELSE CStr(sensors[id].val_light))

\* C19 witness: the unavailable temperature or light channel of a sensor
\* that is on line, and was shown so, has just been polled once more.
C19_Witness ==
    /\ pc = "poll"
    /\ shown
    /\ lastPoll.i \in Ids
    /\ lastPoll.c # 1
    /\ Fd(sensors[lastPoll.i], lastPoll.c) < 0
    /\ lastPoll.ret = 0
    /\ CStr(sensors[lastPoll.i].val_batt) # <<>>
    /\ \E n \in RowsOf(lastPoll.i) : frame[n].attr = "pair2"

\* C20: a read asks for at most BUF_SIZE - 1 = 31 bytes, so every buffer is
\* 32 bytes of which the last is the terminator: the value it holds has at
\* most 31 characters and ends inside the buffer, and no byte of it is one
\* that was never written, for payloads short and long, up to 31 bytes and
\* beyond, with and without a line-break.
C20_ValueTerminatedInBuffer ==
    /\ lastPoll.read => lastPoll.bytes <= BUF_SIZE - 1
    /\ \A id \in Ids, k \in Chans :
          LET buf == Val(sensors[id], k)
          IN /\ Len(buf) = BUF_SIZE
             /\ buf[BUF_SIZE] = NUL
             /\ StrLen(buf) <= BUF_SIZE - 1
             /\ \A n \in 1 .. BUF_SIZE : buf[n] \in 0 .. 255

\* C20 witness: a payload of 31 bytes with no line-break has been read and
\* stored whole, its terminator in the 32nd byte of the buffer.
C20_Witness ==
    /\ lastPoll.read
    /\ Len(lastPoll.data.bytes) = BUF_SIZE - 1
    /\ LineBreaks(lastPoll.data.bytes) = 0
    /\ lastPoll.bytes = BUF_SIZE - 1
    /\ PolledValue = lastPoll.data.bytes
    /\ Val(sensors[lastPoll.i], lastPoll.c)[BUF_SIZE] = NUL

====
